---- MODULE Spec2Model ----
(***************************************************************************)
(* Model of tejolote's watcher: Snapshot.Delta and Watcher.Watch            *)
(* (package watcher).                                                       *)
(***************************************************************************)
EXTENDS Integers, Sequences, FiniteSets, TLC

(***************************************************************************)
(* Bounds of the model.                                                     *)
(***************************************************************************)
\* Number of artifact identities (map keys); an identity is modelled by its
\* rank in the lexical order of paths.
MaxPaths == 2
\* Largest total number of entries of two different snapshots drawn together.
MaxEntries == 2
\* Largest number of RefreshRun calls the backend answers.
MaxCalls == 3

Paths == 1..MaxPaths
\* Values of run.Artifact.Time (time.Time structs); Delta only compares them
\* with Go's !=, so two values are equal here exactly when != is false.
Times == {"fixedTime", "modTime"}
\* Checksum algorithms and digest values; Delta only compares values with !=.
Algos == {"SHA1", "SHA256"}
Sums == {"9f86d081", "76aad9c1"}

Checksums == UNION {[A -> Sums] : A \in SUBSET Algos}
Artifact == [Path : Paths, Time : Times, Checksum : Checksums]
\* type Snapshot map[string]run.Artifact, each entry stored under its own path
Snapshot == UNION {{s \in [K -> Artifact] : \A k \in K : s[k].Path = k} : K \in SUBSET Paths}

VARIABLES
    snap,       \* Delta: the receiver, the earlier snapshot
    post,       \* Delta: the argument, the later snapshot
    dpc,        \* Delta: "call", "range", "returned"
    todo,       \* Delta: keys of post the range loop has not yet produced
    results,    \* Delta: the results slice
    run,        \* the Run handed to Watch
    wpc,        \* Watch: "idle", "check", "refresh", "sleep", "returned"
    wret,       \* Watch: "none", "nil", "err"
    finishAt,   \* backend: first RefreshRun call that reports the run finished
    failAt,     \* backend: the RefreshRun calls that return an error
    ncalls,     \* backend: RefreshRun calls received so far
    calls,      \* history: RefreshRun calls made by the current Watch
    sleeps,     \* history: time.Sleep calls made by the current Watch
    base,       \* history: ncalls when the current Watch was called
    entry,      \* history: the Run when the current Watch was called
    lastGood,   \* history: the Run as left by the last successful RefreshRun
    discovered, \* the identities Delta reported across the Watcher's stores
    aatt,       \* AttestRun: the attestation returned
    aret,       \* AttestRun: "none", "nil", "err"
    aentry,     \* history: the Run when AttestRun was last called
    abuilt,     \* history: whether BuildPredicate succeeded in the last AttestRun
    opts,       \* start: the flags, arguments and output options of the invocation
    spc,        \* start: the statement of RunE that runs next
    stores,     \* start: w.ArtifactStores, each store named by the place of its URI
    snapshots,  \* start: the stores w.Snapshots holds a Snapshot of
    saved,      \* start: the stores whose Snapshot is in the state file
    probed,     \* start: whether the checkout was probed for its VCS URL
    vcsURL,     \* start: the local vcsURL
    att,        \* start: the attestation
    emitted,    \* start: the document printed or written
    published,  \* start: whether a message went to the pub/sub topic
    sret,       \* start: what RunE returned
    gcs,        \* GCS: the store NewGCS made (Bucket, Path)
    bucket,     \* GCS: the objects of the bucket
    workDir,    \* GCS: the files and directories under gcs.WorkDir
    gpc,        \* GCS: "idle", "sync", "snapdir", "returned", "fatal"
    stack,      \* GCS: the syncGCSPrefix calls in progress, the innermost last
    seen,       \* GCS: the seen map of the Snap in progress
    gret,       \* GCS: what Snap returned: "none", "snapshot", "err"
    gsnap,      \* GCS: the Snapshot returned
    gnow,       \* GCS: Snap calls so far; the clock of the working directory
    gchanges,   \* history: changes made to the bucket
    entered,    \* history: the prefixes syncGCSPrefix was entered with, this Snap
    handled,    \* history: the named entries listed this Snap and what became of each
    gfailed,    \* history: whether a listing or a download failed, this Snap
    gfailures,  \* history: listings and downloads that failed, all Snaps
    gprev       \* history: what the Snap before this one returned, the changes made
                \* to the bucket before it was called and before this one was

deltaVars == <<snap, post, dpc, todo, results>>
attestVars == <<discovered, aatt, aret, aentry, abuilt>>
watchVars == <<run, wpc, wret, finishAt, failAt, ncalls, calls, sleeps, base, entry,
              lastGood, attestVars>>
backendVars == <<finishAt, failAt>>
startVars == <<opts, spc, stores, snapshots, saved, probed, vcsURL, att, emitted,
              published, sret>>
gcsVars == <<gcs, bucket, workDir, gpc, stack, seen, gret, gsnap, gnow, gchanges,
            entered, handled, gfailed, gfailures, gprev>>
vars == <<snap, post, dpc, todo, results, run, wpc, wret, finishAt, failAt, ncalls,
          calls, sleeps, base, entry, lastGood, discovered, aatt, aret, aentry, abuilt, opts, spc, stores, snapshots, saved,
          probed, vcsURL, att, emitted, published, sret, gcs, bucket, workDir, gpc,
          stack, seen, gret, gsnap, gnow, gchanges, entered, handled, gfailed, gfailures,
          gprev>>

(***************************************************************************)
(* Values of the start command                                              *)
(***************************************************************************)
\* Longest VCS locator, in characters.
MaxLocLen == 5
\* Largest number of --artifacts URIs.
MaxArtifacts == 2
\* Largest number of Snap calls on one object-storage store.
MaxSnaps == 2
\* Largest number of changes made to the bucket.
MaxChanges == 1

\* A locator is a string over '@' and one other character.
Chars == {"@", "x"}
Locators == UNION {[1..n -> Chars] : n \in 0..MaxLocLen}

\* startAttestationOptions, the positional arguments and outputOptions.  A
\* string option other than vcsURL is kept as whether it is non-empty;
\* statePath is whether outputOps.FinalSnapshotStatePath(OutputPath) is.
Options ==
    [clone : BOOLEAN, repo : BOOLEAN, repoPath : BOOLEAN, pubsub : BOOLEAN,
     vcsURL : Locators, artifacts : 0..MaxArtifacts, args : BOOLEAN,
     outputPath : BOOLEAN, statePath : BOOLEAN]

NoOptions ==
    [clone |-> FALSE, repo |-> FALSE, repoPath |-> FALSE, pubsub |-> FALSE,
     vcsURL |-> <<>>, artifacts |-> 0, args |-> FALSE,
     outputPath |-> FALSE, statePath |-> FALSE]

\* attestation.Attestation with its SLSA predicate
NilAttestation == [IsNil |-> TRUE, HasPredicate |-> FALSE, Materials |-> <<>>, Subjects |-> <<>>]
NotEmitted == [to |-> "none", doc |-> NilAttestation]
NotReturned == [status |-> "none", at |-> "", wraps |-> TRUE]
ReturnedNil == [status |-> "nil", at |-> "", wraps |-> TRUE]
ReturnedErr(step, wrapping) == [status |-> "err", at |-> step, wraps |-> wrapping]

(***************************************************************************)
(* Values of Watcher.AttestRun                                              *)
(***************************************************************************)
\* The predicate of an attestation that has none.
NoPredicate == [Builder |-> "none", Observed |-> 0, Subjects |-> {}]
\* The nil *attestation.Attestation AttestRun returns with an error.
NoAttestation == [IsNil |-> TRUE, Predicate |-> NoPredicate]

(***************************************************************************)
(* Strings of the object-storage driver: object names, prefixes and local  *)
(* paths are sequences of characters.                                       *)
(***************************************************************************)
Sep == "/"
\* The characters of the names at hand, in byte order.
CharOrder == <<"/", "d", "f", "g", "s">>
CharRank(c) == CHOOSE i \in 1..Len(CharOrder) : CharOrder[i] = c

\* a < b in byte-wise lexical order
RECURSIVE LexLess(_, _)
LexLess(a, b) ==
    IF b = <<>> THEN FALSE
    ELSE IF a = <<>> THEN TRUE
    ELSE IF a[1] # b[1] THEN CharRank(a[1]) < CharRank(b[1])
    ELSE LexLess(Tail(a), Tail(b))

\* The strings of S in lexical order.
RECURSIVE Sorted(_)
Sorted(S) ==
    IF S = {} THEN <<>>
    ELSE LET least == CHOOSE x \in S : \A y \in S \ {x} : LexLess(x, y)
         IN  <<least>> \o Sorted(S \ {least})

\* strings.HasPrefix, strings.HasSuffix(s, "/"), strings.TrimSuffix(s, "/"),
\* strings.TrimPrefix(s, "/")
HasPrefix(s, p) == Len(p) <= Len(s) /\ SubSeq(s, 1, Len(p)) = p
HasSuffixSep(s) == s # <<>> /\ s[Len(s)] = Sep
TrimSuffixSep(s) == IF HasSuffixSep(s) THEN SubSeq(s, 1, Len(s) - 1) ELSE s
TrimPrefixSep(s) == IF s # <<>> /\ s[1] = Sep THEN Tail(s) ELSE s

\* The place of the first separator of s, 0 when there is none.
IndexSep(s) ==
    IF \E i \in 1..Len(s) : s[i] = Sep
    THEN CHOOSE i \in 1..Len(s) : s[i] = Sep /\ \A j \in 1..(i - 1) : s[j] # Sep
    ELSE 0

\* The place of the last separator of s, 0 when there is none.
LastSep(s) ==
    IF \E i \in 1..Len(s) : s[i] = Sep
    THEN CHOOSE i \in 1..Len(s) : s[i] = Sep /\ \A j \in (i + 1)..Len(s) : s[j] # Sep
    ELSE 0

(***************************************************************************)
(* The bucket                                                               *)
(***************************************************************************)
NameDir == <<"d", "/">>
NameFile == <<"d", "/", "f">>
NameSubDir == <<"d", "/", "s", "/">>
NameSubFile == <<"d", "/", "s", "/", "g">>
ObjectNames == {NameDir, NameFile, NameSubDir, NameSubFile}

Empty == <<>>
Short == <<1>>
Long == <<2, 2>>
Text == "text/plain"
Binary == "application/octet-stream"
Attrs(content, type) == [Content |-> content, ContentType |-> type]
Size(o) == Len(o.Content)

\* What an object of a name may be: a name that ends in the separator is the
\* zero-length placeholder the console makes for a folder.
ObjectsNamed(n) ==
    IF HasSuffixSep(n) THEN {Attrs(Empty, Text)}
    ELSE IF n = NameFile
    THEN {Attrs(Empty, Text), Attrs(Short, Text), Attrs(Short, Binary), Attrs(Long, Binary)}
    ELSE {Attrs(Short, Binary), Attrs(Long, Binary)}

Buckets ==
    UNION {{b \in [K -> UNION {ObjectsNamed(n) : n \in K}] :
                \A n \in K : b[n] \in ObjectsNamed(n)} : K \in SUBSET ObjectNames}

\* Bucket.Objects(ctx, &storage.Query{Delimiter: "/", Prefix: q}): the objects
\* under q with no separator after q, in name order, then the sub-prefixes up
\* to the first separator after q, in order.  An object entry has no Prefix, a
\* prefix entry no Name.
ListObjects(b, q) ==
    LET under == {n \in DOMAIN b : HasPrefix(n, q)}
        rest(n) == SubSeq(n, Len(q) + 1, Len(n))
        items == {n \in under : IndexSep(rest(n)) = 0}
        prefixes == {SubSeq(n, 1, Len(q) + IndexSep(rest(n))) :
                        n \in {m \in under : IndexSep(rest(m)) # 0}}
        itemSeq == Sorted(items)
        prefixSeq == Sorted(prefixes)
    IN  [i \in 1..Len(itemSeq) |-> [Name |-> itemSeq[i], Prefix |-> <<>>]]
        \o [i \in 1..Len(prefixSeq) |-> [Name |-> <<>>, Prefix |-> prefixSeq[i]]]

(***************************************************************************)
(* The working directory                                                    *)
(***************************************************************************)
\* filepath.Join(gcs.WorkDir, filePath), relative to WorkDir: Join cleans a
\* trailing separator away.
LocalPath(filePath) == TrimSuffixSep(filePath)

\* filepath.Dir, relative to WorkDir (<<>> is WorkDir itself)
Dir(p) == IF LastSep(p) = 0 THEN <<>> ELSE SubSeq(p, 1, LastSep(p) - 1)

\* p and the directories above it, below WorkDir
RECURSIVE UpTo(_)
UpTo(p) == IF p = <<>> THEN {} ELSE {p} \cup UpTo(Dir(p))

\* os.MkdirAll(filepath.Dir(localpath), 0o755), its error not looked at: the
\* directories down to the first path that is a file
MkdirAll(fs, p) ==
    [fs EXCEPT !.dirs = @ \cup {a \in UpTo(p) : UpTo(a) \cap DOMAIN fs.files = {}}]

\* os.OpenFile(localpath, os.O_RDWR|os.O_CREATE, 0644) succeeds
CanOpen(fs, p) ==
    /\ p # <<>>
    /\ p \notin fs.dirs
    /\ Dir(p) = <<>> \/ Dir(p) \in fs.dirs

\* the file after os.OpenFile: made empty if it was not there, else as it was
Opened(fs, p, now) ==
    IF p \in DOMAIN fs.files THEN fs
    ELSE [fs EXCEPT !.files = [q \in DOMAIN fs.files \cup {p} |->
                                  IF q = p THEN [Content |-> <<>>, Time |-> now]
                                  ELSE fs.files[q]]]

\* io.Copy(f, rc) into a file opened without O_TRUNC: the bytes of the object
\* from offset 0, whatever the file held beyond them is kept
Copied(old, content) == content \o SubSeq(old, Len(content) + 1, Len(old))

Written(fs, p, content, now) ==
    [fs EXCEPT !.files[p] =
        [Content |-> Copied(@.Content, content),
         Time |-> IF content = <<>> THEN @.Time ELSE now]]

\* No Snap has returned yet.
NoSnap == [ret |-> "none", snapshot |-> << >>, changes |-> 0, called |-> 0]

\* The working directory os.MkdirTemp made.
EmptyDir == [dirs |-> {}, files |-> << >>]

(***************************************************************************)
(* Snapshot.Delta                                                           *)
(***************************************************************************)
\* if _, ok := (*snap)[path]; !ok
NotInSnap(s, path) == path \notin DOMAIN s

\* Slip: the time comparison is left out.
TimeDiffers_Skipped(old, f) == FALSE

\* (*snap)[path].Time != f.Time
TimeDiffers(old, f) == old.Time # f.Time

\* Slip: fv == val instead of fv != val.
ChecksumDiffers_Equal(old, f) ==
    \E algo \in DOMAIN old.Checksum :
        /\ algo \in DOMAIN f.Checksum
        /\ f.Checksum[algo] = old.Checksum[algo]

\* Slip: the entry counts as changed only when every checksum of the old entry
\* is matched by another value.
ChecksumDiffers_All(old, f) ==
    /\ DOMAIN old.Checksum # {}
    /\ \A algo \in DOMAIN old.Checksum :
        /\ algo \in DOMAIN f.Checksum
        /\ f.Checksum[algo] # old.Checksum[algo]

\* Slip: the two checksum maps are compared as wholes.
ChecksumDiffers_WholeMap(old, f) == old.Checksum # f.Checksum

\* The loop over the first snapshot's checksums: some algorithm of the old
\* entry is also in f and has another value there.  The loop appends at most
\* once (break), so the order of the map range does not show in its result.
ChecksumDiffers(old, f) ==
    \E algo \in DOMAIN old.Checksum :
        /\ algo \in DOMAIN f.Checksum
        /\ f.Checksum[algo] # old.Checksum[algo]

\* Slip: a file missing from the first snapshot is skipped, not appended.
Reported_NoAdded(s, path, f) ==
    IF path \notin DOMAIN s THEN FALSE
    ELSE IF s[path].Time # f.Time THEN TRUE
    ELSE \E algo \in DOMAIN s[path].Checksum :
             /\ algo \in DOMAIN f.Checksum
             /\ f.Checksum[algo] # s[path].Checksum[algo]

\* One iteration of the range loop: whether f is appended to results.
Reported(s, path, f) ==
    IF NotInSnap(s, path) THEN TRUE
    ELSE IF TimeDiffers(s[path], f) THEN TRUE
    ELSE ChecksumDiffers(s[path], f)

\* Slip: the entry of the first snapshot is appended when there is one.
AppendResult_Old(res, f) ==
    Append(res, IF f.Path \in DOMAIN snap THEN snap[f.Path] ELSE f)

\* results = append(results, f)
AppendResult(res, f) == Append(res, f)

\* Slip: reading a missing key adds it to the map with the zero value.
MapRead_Inserts(s, path) ==
    IF path \in DOMAIN s THEN s
    ELSE [q \in DOMAIN s \cup {path} |->
             IF q = path THEN [Path |-> path, Time |-> "fixedTime", Checksum |-> << >>]
             ELSE s[q]]

\* (*snap)[path] and the comma-ok form: what the map is after it was read.
\* Reading a Go map, also at a missing key, leaves it as it was; f is a copy.
MapRead(s, path) == s

\* The keys a range over a Go map may produce next: any key not yet produced.
RangeNext(remaining) == remaining

DeltaInit ==
    /\ snap \in Snapshot
    /\ post \in Snapshot
    /\ \/ Cardinality(DOMAIN snap) + Cardinality(DOMAIN post) <= MaxEntries
       \/ snap = post
    /\ dpc = "call"
    /\ todo = {}
    /\ results = <<>>
    \* no Watch is in progress
    /\ run = [IsRunning |-> FALSE, Observed |-> 0]
    /\ wpc = "idle"
    /\ wret = "none"
    /\ finishAt = 1
    /\ failAt = {}
    /\ ncalls = 0
    /\ calls = 0
    /\ sleeps = 0
    /\ base = 0
    /\ entry = run
    /\ lastGood = run
    /\ discovered = {}
    /\ aatt = NoAttestation
    /\ aret = "none"
    /\ aentry = run
    /\ abuilt = FALSE
    \* no start command is running
    /\ opts = NoOptions
    /\ spc = "rest"
    /\ stores = <<>>
    /\ snapshots = {}
    /\ saved = {}
    /\ probed = FALSE
    /\ vcsURL = <<>>
    /\ att = NilAttestation
    /\ emitted = NotEmitted
    /\ published = FALSE
    /\ sret = NotReturned
    \* no object-storage store is in use
    /\ gcs = [Bucket |-> FALSE, Path |-> <<>>]
    /\ bucket = << >>
    /\ workDir = EmptyDir
    /\ gpc = "idle"
    /\ stack = <<>>
    /\ seen = {}
    /\ gret = "none"
    /\ gsnap = << >>
    /\ gnow = 0
    /\ gchanges = 0
    /\ entered = <<>>
    /\ handled = {}
    /\ gfailed = FALSE
    /\ gfailures = 0
    /\ gprev = NoSnap

\* results := []run.Artifact{}; the range over *post starts
DeltaCall ==
    /\ dpc = "call"
    /\ results' = <<>>
    /\ todo' = DOMAIN post
    /\ dpc' = "range"
    /\ UNCHANGED <<snap, post>>
    /\ UNCHANGED <<watchVars, startVars, gcsVars>>

\* for path, f := range *post { ... }
DeltaIter ==
    /\ dpc = "range"
    /\ \E path \in RangeNext(todo) :
        /\ results' = IF Reported(snap, path, post[path])
                      THEN AppendResult(results, post[path])
                      ELSE results
        /\ todo' = todo \ {path}
        /\ snap' = MapRead(snap, path)
        /\ post' = MapRead(post, path)
    /\ UNCHANGED dpc
    /\ UNCHANGED <<watchVars, startVars, gcsVars>>

\* return results
DeltaReturn ==
    /\ dpc = "range"
    /\ todo = {}
    /\ dpc' = "returned"
    /\ UNCHANGED <<snap, post, todo, results>>
    /\ UNCHANGED <<watchVars, startVars, gcsVars>>

DeltaNext == DeltaCall \/ DeltaIter \/ DeltaReturn

(***************************************************************************)
(* run.Run and Builder.RefreshRun.  The builders are not part of the        *)
(* sources at hand: the backend is a script fixed at construction, which    *)
(* fails the calls in failAt and reports the run finished from call         *)
(* finishAt on.  A failing call leaves the Run as it was.                   *)
(***************************************************************************)
Run == [IsRunning : BOOLEAN, Observed : 0..(MaxCalls + 1)]

RefreshFails(n) == n \in failAt

RefreshRun(r, n) ==
    IF RefreshFails(n) THEN r
    ELSE [IsRunning |-> n < finishAt, Observed |-> n]

(***************************************************************************)
(* Watcher.Watch                                                            *)
(***************************************************************************)
WatchInit ==
    /\ run \in {[IsRunning |-> b, Observed |-> 0] : b \in BOOLEAN}
    /\ wpc = "idle"
    /\ wret = "none"
    /\ finishAt \in 1..(MaxCalls + 1)
    /\ failAt \in SUBSET (1..MaxCalls)
    /\ ncalls = 0
    /\ calls = 0
    /\ sleeps = 0
    /\ base = 0
    /\ entry = run
    /\ lastGood = run
    /\ discovered \in SUBSET Paths
    /\ aatt = NoAttestation
    /\ aret = "none"
    /\ aentry = run
    /\ abuilt = FALSE
    \* no Delta is in progress
    /\ snap = << >>
    /\ post = << >>
    /\ dpc = "call"
    /\ todo = {}
    /\ results = <<>>
    \* no start command is running
    /\ opts = NoOptions
    /\ spc = "rest"
    /\ stores = <<>>
    /\ snapshots = {}
    /\ saved = {}
    /\ probed = FALSE
    /\ vcsURL = <<>>
    /\ att = NilAttestation
    /\ emitted = NotEmitted
    /\ published = FALSE
    /\ sret = NotReturned
    \* no object-storage store is in use
    /\ gcs = [Bucket |-> FALSE, Path |-> <<>>]
    /\ bucket = << >>
    /\ workDir = EmptyDir
    /\ gpc = "idle"
    /\ stack = <<>>
    /\ seen = {}
    /\ gret = "none"
    /\ gsnap = << >>
    /\ gnow = 0
    /\ gchanges = 0
    /\ entered = <<>>
    /\ handled = {}
    /\ gfailed = FALSE
    /\ gfailures = 0
    /\ gprev = NoSnap

\* w.Watch(r) is called
WatchCall ==
    /\ wpc \in {"idle", "returned"}
    /\ wpc' = "check"
    /\ wret' = "none"
    /\ calls' = 0
    /\ sleeps' = 0
    /\ base' = ncalls
    /\ entry' = run
    /\ UNCHANGED <<run, ncalls, lastGood, backendVars>>
    /\ UNCHANGED <<deltaVars, startVars, attestVars, gcsVars>>

\* Slip: the loop refreshes first and tests IsRunning only afterwards.
WatchCheck_RefreshFirst ==
    /\ wpc = "check"
    /\ IF ~run.IsRunning /\ calls > 0
       THEN wpc' = "returned" /\ wret' = "nil"
       ELSE wpc' = "refresh" /\ wret' = wret
    /\ UNCHANGED <<run, ncalls, calls, sleeps, base, entry, lastGood, backendVars>>
    /\ UNCHANGED <<deltaVars, startVars, attestVars, gcsVars>>

\* if !r.IsRunning { return nil }
WatchCheck ==
    /\ wpc = "check"
    /\ IF ~run.IsRunning
       THEN wpc' = "returned" /\ wret' = "nil"
       ELSE wpc' = "refresh" /\ wret' = wret
    /\ UNCHANGED <<run, ncalls, calls, sleeps, base, entry, lastGood, backendVars>>
    /\ UNCHANGED <<deltaVars, startVars, attestVars, gcsVars>>

\* Slip: the error is dropped and the loop goes on to the sleep.
WatchRefreshErr_Swallowed ==
    /\ RefreshFails(ncalls + 1)
    /\ wpc' = "sleep"
    /\ wret' = wret
    /\ UNCHANGED lastGood

\* w.Builder.RefreshRun(r) returned an error:
\* return fmt.Errorf("refreshing run data: %w", err)
WatchRefreshErr ==
    /\ RefreshFails(ncalls + 1)
    /\ wpc' = "returned"
    /\ wret' = "err"
    /\ UNCHANGED lastGood

\* w.Builder.RefreshRun(r) returned nil: fall through to the sleep
WatchRefreshOk ==
    /\ ~RefreshFails(ncalls + 1)
    /\ wpc' = "sleep"
    /\ wret' = wret
    /\ lastGood' = run'

\* if err := w.Builder.RefreshRun(r); err != nil { ... }
WatchRefresh ==
    /\ wpc = "refresh"
    /\ ncalls < MaxCalls
    /\ run' = RefreshRun(run, ncalls + 1)
    /\ ncalls' = ncalls + 1
    /\ calls' = calls + 1
    /\ (WatchRefreshErr \/ WatchRefreshOk)
    /\ UNCHANGED <<sleeps, base, entry, backendVars>>
    /\ UNCHANGED <<deltaVars, startVars, attestVars, gcsVars>>

\* Slip: after the sleep the loop goes straight to the next refresh.
WatchSleep_NoCheck ==
    /\ wpc = "sleep"
    /\ wpc' = "refresh"
    /\ sleeps' = sleeps + 1
    /\ UNCHANGED <<run, wret, ncalls, calls, base, entry, lastGood, backendVars>>
    /\ UNCHANGED <<deltaVars, startVars, attestVars, gcsVars>>

\* time.Sleep(3 * time.Second), then the loop starts over
WatchSleep ==
    /\ wpc = "sleep"
    /\ wpc' = "check"
    /\ sleeps' = sleeps + 1
    /\ UNCHANGED <<run, wret, ncalls, calls, base, entry, lastGood, backendVars>>
    /\ UNCHANGED <<deltaVars, startVars, attestVars, gcsVars>>

(***************************************************************************)
(* Watcher.AttestRun.  Builder.BuildPredicate is not part of the sources at *)
(* hand: it reads the Run and returns the backend's predicate skeleton,     *)
(* without artifact subjects, or an error.                                  *)
(***************************************************************************)
BuildPredicate(r) == [Builder |-> "builder", Observed |-> r.Observed, Subjects |-> {}]

\* Slip: a Run that is still running is refused with an error.
AttestRunResult_RunningRefused(r, ok) ==
    IF ok /\ ~r.IsRunning
    THEN [att |-> [IsNil |-> FALSE, Predicate |-> BuildPredicate(r)], ret |-> "nil"]
    ELSE [att |-> NoAttestation, ret |-> "err"]

\* att := attestation.New().SLSA(); predicate, err := w.Builder.BuildPredicate(r)
\* if err != nil { return nil, ... }; att.Predicate = predicate; return att, nil
AttestRunResult(r, ok) ==
    IF ok
    THEN [att |-> [IsNil |-> FALSE, Predicate |-> BuildPredicate(r)], ret |-> "nil"]
    ELSE [att |-> NoAttestation, ret |-> "err"]

\* w.AttestRun(r), called while no Watch is on the stack
AttestRun ==
    /\ wpc \in {"idle", "returned"}
    /\ \E ok \in BOOLEAN :
        /\ abuilt' = ok
        /\ aatt' = AttestRunResult(run, ok).att
        /\ aret' = AttestRunResult(run, ok).ret
    /\ aentry' = run
    /\ UNCHANGED <<run, wpc, wret, ncalls, calls, sleeps, base, entry, lastGood,
                   backendVars, discovered>>
    /\ UNCHANGED <<deltaVars, startVars, gcsVars>>

WatchNext == WatchCall \/ WatchCheck \/ WatchRefresh \/ WatchSleep \/ AttestRun

(***************************************************************************)
(* The start attestation command (addStart, RunE)                           *)
(***************************************************************************)
\* strings.Index(s, "@"): the first position of the separator, 0 when absent
IndexAt(s) ==
    IF \E i \in 1..Len(s) : s[i] = "@"
    THEN CHOOSE i \in 1..Len(s) : s[i] = "@" /\ \A j \in 1..(i - 1) : s[j] # "@"
    ELSE 0

\* strings.Cut(s, "@")
Cut(s) ==
    IF IndexAt(s) = 0
    THEN [before |-> s, after |-> <<>>, found |-> FALSE]
    ELSE [before |-> SubSeq(s, 1, IndexAt(s) - 1),
          after |-> SubSeq(s, IndexAt(s) + 1, Len(s)),
          found |-> TRUE]

\* material := slsa.ProvenanceMaterial{URI: vcsURL, Digest: map[string]string{}}
\* and the strings.Cut that splits the locator
Material(url) ==
    IF Cut(url).found
    THEN [URI |-> Cut(url).before, Digest |-> {<<"sha1", Cut(url).after>>}]
    ELSE [URI |-> url, Digest |-> {}]

StartInit ==
    /\ opts \in Options
    /\ spc = "validate"
    /\ stores = <<>>
    /\ snapshots = {}
    /\ saved = {}
    /\ probed = FALSE
    /\ vcsURL = <<>>
    /\ att = NilAttestation
    /\ emitted = NotEmitted
    /\ published = FALSE
    /\ sret = NotReturned
    \* no Delta is in progress
    /\ snap = << >>
    /\ post = << >>
    /\ dpc = "call"
    /\ todo = {}
    /\ results = <<>>
    \* no Watch is in progress
    /\ run = [IsRunning |-> FALSE, Observed |-> 0]
    /\ wpc = "idle"
    /\ wret = "none"
    /\ finishAt = 1
    /\ failAt = {}
    /\ ncalls = 0
    /\ calls = 0
    /\ sleeps = 0
    /\ base = 0
    /\ entry = run
    /\ lastGood = run
    /\ discovered = {}
    /\ aatt = NoAttestation
    /\ aret = "none"
    /\ aentry = run
    /\ abuilt = FALSE
    \* no object-storage store is in use
    /\ gcs = [Bucket |-> FALSE, Path |-> <<>>]
    /\ bucket = << >>
    /\ workDir = EmptyDir
    /\ gpc = "idle"
    /\ stack = <<>>
    /\ seen = {}
    /\ gret = "none"
    /\ gsnap = << >>
    /\ gnow = 0
    /\ gchanges = 0
    /\ entered = <<>>
    /\ handled = {}
    /\ gfailed = FALSE
    /\ gfailures = 0
    /\ gprev = NoSnap

\* return fmt.Errorf(...)
StartFail(step, wrapping) ==
    /\ spc' = "done"
    /\ sret' = ReturnedErr(step, wrapping)

\* startAttestationOpts.Validate()
StartValidate ==
    /\ spc = "validate"
    /\ IF opts.clone /\ (~opts.repo \/ ~opts.repoPath)
       THEN StartFail("validating options", TRUE)
       ELSE spc' = "args" /\ sret' = sret
    /\ UNCHANGED <<opts, stores, snapshots, saved, probed, vcsURL, att, emitted, published>>
    /\ UNCHANGED <<deltaVars, watchVars, gcsVars>>

\* if len(args) == 0
StartArgs ==
    /\ spc = "args"
    /\ IF ~opts.args
       THEN StartFail("build run spec URL not specified", TRUE)
       ELSE spc' = "new" /\ sret' = sret
    /\ UNCHANGED <<opts, stores, snapshots, saved, probed, vcsURL, att, emitted, published>>
    /\ UNCHANGED <<deltaVars, watchVars, gcsVars>>

\* w, err := watcher.New(args[0]); the error is not wrapped
StartNew ==
    /\ spc = "new"
    /\ \E ok \in BOOLEAN :
        IF ok THEN spc' = "sources" /\ sret' = sret
        ELSE StartFail("building watcher", FALSE)
    /\ UNCHANGED <<opts, stores, snapshots, saved, probed, vcsURL, att, emitted, published>>
    /\ UNCHANGED <<deltaVars, watchVars, gcsVars>>

\* The Watcher watcher.New returned, with the stores registered so far.
Watcher(registered) == [Builder |-> "builder", ArtifactStores |-> registered]

\* Slip: what store.New returned is appended before its error is looked at.
AddArtifactSource_AppendsFirst(w, uri, ok) ==
    [w |-> [w EXCEPT !.ArtifactStores = Append(@, uri)], err |-> ~ok]

\* Watcher.AddArtifactSource: store.New resolves the URI or fails; the
\* Watcher after the call and whether an error is returned
AddArtifactSource(w, uri, ok) ==
    IF ok
    THEN [w |-> [w EXCEPT !.ArtifactStores = Append(@, uri)], err |-> FALSE]
    ELSE [w |-> w, err |-> TRUE]

\* for _, uri := range startAttestationOpts.artifacts { w.AddArtifactSource(uri) }
StartAddSource ==
    /\ spc = "sources"
    /\ IF Len(stores) = opts.artifacts
       THEN spc' = "snap" /\ sret' = sret /\ stores' = stores
       ELSE \E ok \in BOOLEAN :
            LET added == AddArtifactSource(Watcher(stores), Len(stores) + 1, ok)
            IN  /\ stores' = added.w.ArtifactStores
                /\ IF added.err THEN StartFail("adding artifacts source", TRUE)
                   ELSE spc' = spc /\ sret' = sret
    /\ UNCHANGED <<opts, snapshots, saved, probed, vcsURL, att, emitted, published>>
    /\ UNCHANGED <<deltaVars, watchVars, gcsVars>>

\* Watcher.Snap: a Snapshot of every registered store, or an error
WatcherSnap(n, ok) == IF ok THEN 1..n ELSE {}

\* if err := w.Snap(); err != nil
StartSnap ==
    /\ spc = "snap"
    /\ \E ok \in BOOLEAN :
        /\ snapshots' = WatcherSnap(Len(stores), ok)
        /\ IF ok THEN spc' = "save" /\ sret' = sret
           ELSE StartFail("snapshotting the artifact repositories", TRUE)
    /\ UNCHANGED <<opts, stores, saved, probed, vcsURL, att, emitted, published>>
    /\ UNCHANGED <<deltaVars, watchVars, gcsVars>>

\* Slip: the error of SaveSnapshots is dropped.
StartSave_ErrorDropped ==
    /\ spc = "save"
    /\ IF ~opts.statePath
       THEN spc' = "clone" /\ sret' = sret /\ saved' = saved
       ELSE \E ok \in BOOLEAN :
            /\ saved' = IF ok THEN snapshots ELSE saved
            /\ spc' = "clone"
            /\ sret' = sret
    /\ UNCHANGED <<opts, stores, snapshots, probed, vcsURL, att, emitted, published>>
    /\ UNCHANGED <<deltaVars, watchVars, gcsVars>>

\* if outputOps.FinalSnapshotStatePath(outputOps.OutputPath) == "" { warning }
\* else { w.SaveSnapshots(...) }
StartSave ==
    /\ spc = "save"
    /\ IF ~opts.statePath
       THEN spc' = "clone" /\ sret' = sret /\ saved' = saved
       ELSE \E ok \in BOOLEAN :
            /\ saved' = IF ok THEN snapshots ELSE saved
            /\ IF ok THEN spc' = "clone" /\ sret' = sret
               ELSE StartFail("saving storage snapshots", TRUE)
    /\ UNCHANGED <<opts, stores, snapshots, probed, vcsURL, att, emitted, published>>
    /\ UNCHANGED <<deltaVars, watchVars, gcsVars>>

\* att := attestation.New(); predicate := attestation.NewSLSAPredicate()
\* if startAttestationOpts.clone { return "repository cloning not yet implemented" }
StartClone ==
    /\ spc = "clone"
    /\ IF opts.clone
       THEN StartFail("repository cloning not yet implemented", TRUE)
       ELSE spc' = "vcs" /\ sret' = sret
    /\ UNCHANGED <<opts, stores, snapshots, saved, probed, vcsURL, att, emitted, published>>
    /\ UNCHANGED <<deltaVars, watchVars, gcsVars>>

\* vcsURL := startAttestationOpts.vcsURL; if vcsURL == ""
NeedsProbe(o) == o.vcsURL = <<>>

\* vcsURL, err = readVCSURL(*outputOps, startAttestationOpts)
StartVCS ==
    /\ spc = "vcs"
    /\ IF ~NeedsProbe(opts)
       THEN vcsURL' = opts.vcsURL /\ probed' = probed /\ spc' = "material" /\ sret' = sret
       ELSE IF ~opts.repoPath
       THEN vcsURL' = <<>> /\ probed' = probed /\ spc' = "material" /\ sret' = sret
       ELSE /\ probed' = TRUE
            /\ \/ \E url \in Locators :
                    vcsURL' = url /\ spc' = "material" /\ sret' = sret
               \/ vcsURL' = <<>> /\ StartFail("fetching VCS URL", TRUE)
    /\ UNCHANGED <<opts, stores, snapshots, saved, att, emitted, published>>
    /\ UNCHANGED <<deltaVars, watchVars, gcsVars>>

\* Slip: the material is appended whether or not there is a locator.
Materials_Always(url) == <<Material(url)>>

\* if vcsURL != "" { ...; predicate.Materials = append(predicate.Materials, material) }
Materials(url) == IF url # <<>> THEN <<Material(url)>> ELSE <<>>

\* att.Predicate = predicate
StartMaterial ==
    /\ spc = "material"
    /\ att' = [IsNil |-> FALSE, HasPredicate |-> TRUE,
               Materials |-> Materials(vcsURL), Subjects |-> <<>>]
    /\ spc' = "json"
    /\ UNCHANGED <<opts, stores, snapshots, saved, probed, vcsURL, emitted, published, sret>>
    /\ UNCHANGED <<deltaVars, watchVars, gcsVars>>

\* json, err := att.ToJSON()
StartJSON ==
    /\ spc = "json"
    /\ \E ok \in BOOLEAN :
        IF ok THEN spc' = "write" /\ sret' = sret
        ELSE StartFail("serializing attestation json", TRUE)
    /\ UNCHANGED <<opts, stores, snapshots, saved, probed, vcsURL, att, emitted, published>>
    /\ UNCHANGED <<deltaVars, watchVars, gcsVars>>

\* fmt.Println(string(json)), or os.WriteFile(...) whose error is not looked at
StartWrite ==
    /\ spc = "write"
    /\ IF ~opts.outputPath
       THEN emitted' = [to |-> "stdout", doc |-> att]
       ELSE \E ok \in BOOLEAN :
            emitted' = IF ok THEN [to |-> "file", doc |-> att] ELSE emitted
    /\ spc' = "pubsub"
    /\ UNCHANGED <<opts, stores, snapshots, saved, probed, vcsURL, att, published, sret>>
    /\ UNCHANGED <<deltaVars, watchVars, gcsVars>>

\* if startAttestationOpts.pubsub != "" { ...; w.PublishToTopic(...) }; return nil
StartPubsub ==
    /\ spc = "pubsub"
    /\ IF ~opts.pubsub
       THEN published' = published /\ spc' = "done" /\ sret' = ReturnedNil
       ELSE \/ /\ opts.statePath
               /\ published' = published
               /\ StartFail("reading snapshot data", TRUE)
            \/ \E ok \in BOOLEAN :
                /\ published' = ok
                /\ IF ok THEN spc' = "done" /\ sret' = ReturnedNil
                   ELSE StartFail("publishing message to pubsub topic", TRUE)
    /\ UNCHANGED <<opts, stores, snapshots, saved, probed, vcsURL, att, emitted>>
    /\ UNCHANGED <<deltaVars, watchVars, gcsVars>>

StartNext ==
    \/ StartValidate
    \/ StartArgs
    \/ StartNew
    \/ StartAddSource
    \/ StartSnap
    \/ StartSave
    \/ StartClone
    \/ StartVCS
    \/ StartMaterial
    \/ StartJSON
    \/ StartWrite
    \/ StartPubsub

(***************************************************************************)
(* The object-storage driver: GCS.Snap, syncGCSPrefix, syncGSFile           *)
(***************************************************************************)
\* NewGCS: Bucket is u.Hostname() (kept as whether it is non-empty), Path is
\* u.Path
Stores ==
    {[Bucket |-> b, Path |-> p] :
        b \in BOOLEAN, p \in {<<>>, <<"/", "d">>, <<"/", "d", "/">>}}

GcsInit ==
    /\ gcs \in Stores
    /\ bucket \in Buckets
    /\ workDir = EmptyDir
    /\ gpc = "idle"
    /\ stack = <<>>
    /\ seen = {}
    /\ gret = "none"
    /\ gsnap = << >>
    /\ gnow = 0
    /\ gchanges = 0
    /\ entered = <<>>
    /\ handled = {}
    /\ gfailed = FALSE
    /\ gfailures = 0
    /\ gprev = NoSnap
    \* no Delta is in progress
    /\ snap = << >>
    /\ post = << >>
    /\ dpc = "call"
    /\ todo = {}
    /\ results = <<>>
    \* no Watch is in progress
    /\ run = [IsRunning |-> FALSE, Observed |-> 0]
    /\ wpc = "idle"
    /\ wret = "none"
    /\ finishAt = 1
    /\ failAt = {}
    /\ ncalls = 0
    /\ calls = 0
    /\ sleeps = 0
    /\ base = 0
    /\ entry = run
    /\ lastGood = run
    /\ discovered = {}
    /\ aatt = NoAttestation
    /\ aret = "none"
    /\ aentry = run
    /\ abuilt = FALSE
    \* no start command is running
    /\ opts = NoOptions
    /\ spc = "rest"
    /\ stores = <<>>
    /\ snapshots = {}
    /\ saved = {}
    /\ probed = FALSE
    /\ vcsURL = <<>>
    /\ att = NilAttestation
    /\ emitted = NotEmitted
    /\ published = FALSE
    /\ sret = NotReturned

\* The frame of a syncGCSPrefix call: its prefix, the entries the iterator has
\* yet to return, filesToSync, and whether the listing loop is over.
Frame(prefix) ==
    [prefix |-> prefix,
     items |-> ListObjects(bucket, TrimPrefixSep(prefix)),
     files |-> <<>>,
     phase |-> "list"]

Top == stack[Len(stack)]
SetTop(f) == [stack EXCEPT ![Len(stack)] = f]

\* syncGCSPrefix(ctx, prefix, seen) is entered from the call stack callers,
\* with seenNow the seen map it is given: the query is made and
\* seen[prefix] = struct{}{}.
Enter(callers, prefix, seenNow, enteredNow) ==
    /\ seen' = seenNow \cup {prefix}
    /\ entered' = Append(enteredNow, prefix)
    /\ stack' = Append(callers, Frame(prefix))

\* The directory store's Snap of the working directory, each path rewritten
\* to its gs:// identity: every regular file with its time and checksum.
DirectorySnap(fs) ==
    [p \in DOMAIN fs.files |->
        [Path |-> p, Time |-> fs.files[p].Time,
         Checksum |-> [algo \in {"SHA256"} |-> fs.files[p].Content]]]

\* gcs.Snap()
GcsSnap ==
    /\ gpc \in {"idle", "returned"}
    /\ gnow < MaxSnaps
    /\ gnow' = gnow + 1
    /\ handled' = {}
    /\ gfailed' = FALSE
    /\ gsnap' = << >>
    /\ IF gcs.Path = <<>> \/ ~gcs.Bucket
       THEN /\ gpc' = "returned"
            /\ gret' = "err"
            /\ seen' = {}
            /\ entered' = <<>>
            /\ stack' = <<>>
       ELSE /\ gpc' = "sync"
            /\ gret' = "none"
            /\ Enter(<<>>, TrimPrefixSep(gcs.Path), {}, <<>>)
    /\ gprev' = [ret |-> gret, snapshot |-> gsnap,
                 changes |-> gprev.called, called |-> gchanges]
    /\ UNCHANGED <<gcs, bucket, workDir, gchanges, gfailures>>
    /\ UNCHANGED <<deltaVars, watchVars, startVars>>

\* attrs, err := it.Next() returned an error that is not iterator.Done:
\* log.Fatal(err) ends the process.
GcsListFails ==
    /\ gpc = "sync"
    /\ Top.phase = "list"
    /\ gpc' = "fatal"
    /\ gfailed' = TRUE
    /\ gfailures' = gfailures + 1
    /\ UNCHANGED <<gcs, bucket, workDir, stack, seen, gret, gsnap, gnow, gchanges,
                   entered, handled>>
    /\ UNCHANGED <<gprev, deltaVars, watchVars, startVars>>

\* What the listing loop does with one entry: "enter" a prefix entry not yet
\* seen, "marker" (enter the trimmed name of) an object whose name ends in
\* the separator, "skip" an object, take it as a "file", or pass over it.
Classify(e, seenNow) ==
    IF e.Prefix \notin seenNow /\ e.Name = <<>> THEN "enter"
    ELSE IF HasSuffixSep(e.Name) /\ TrimSuffixSep(e.Name) \notin seenNow THEN "marker"
    ELSE IF e.Name # <<>> /\ Size(bucket[e.Name]) > 0 /\ bucket[e.Name].ContentType = Text
    THEN "skip"
    ELSE IF e.Name # <<>> THEN "file"
    ELSE "pass"

\* attrs, err := it.Next() returned an entry
GcsNext ==
    /\ gpc = "sync"
    /\ Top.phase = "list"
    /\ Top.items # <<>>
    /\ LET e == Head(Top.items)
           how == Classify(e, seen)
           rest == [Top EXCEPT !.items = Tail(@)]
       IN  /\ handled' = IF e.Name # <<>> THEN handled \cup {<<e.Name, how>>} ELSE handled
           /\ CASE how = "enter" -> Enter(SetTop(rest), e.Prefix, seen, entered)
                [] how = "marker" -> Enter(SetTop(rest), TrimSuffixSep(e.Name), seen, entered)
                [] how = "file" ->
                    /\ stack' = SetTop([rest EXCEPT !.files = Append(@, e.Prefix \o e.Name)])
                    /\ UNCHANGED <<seen, entered>>
                [] OTHER ->
                    /\ stack' = SetTop(rest)
                    /\ UNCHANGED <<seen, entered>>
    /\ UNCHANGED <<gcs, bucket, workDir, gpc, gret, gsnap, gnow, gchanges, gfailed, gfailures>>
    /\ UNCHANGED <<gprev, deltaVars, watchVars, startVars>>

\* it.Next() returned iterator.Done: break
GcsListed ==
    /\ gpc = "sync"
    /\ Top.phase = "list"
    /\ Top.items = <<>>
    /\ stack' = SetTop([Top EXCEPT !.phase = "copy"])
    /\ UNCHANGED <<gcs, bucket, workDir, gpc, seen, gret, gsnap, gnow, gchanges,
                   entered, handled, gfailed, gfailures>>
    /\ UNCHANGED <<gprev, deltaVars, watchVars, startVars>>

\* syncGCSPrefix returns to its caller.  The recursive calls do not look at
\* what it returns; Snap wraps an error and returns it, and goes on to the
\* snapshot of the working directory otherwise.
Return(failed) ==
    /\ stack' = SubSeq(stack, 1, Len(stack) - 1)
    /\ IF Len(stack) > 1 THEN UNCHANGED <<gpc, gret>>
       ELSE IF failed THEN gpc' = "returned" /\ gret' = "err"
       ELSE gpc' = "snapdir" /\ UNCHANGED gret

\* for _, filename := range filesToSync { gcs.syncGSFile(ctx, filename) }
GcsCopy ==
    /\ gpc = "sync"
    /\ Top.phase = "copy"
    /\ Top.files # <<>>
    /\ LET name == Head(Top.files)
           p == LocalPath(name)
           made == MkdirAll(workDir, Dir(p))
       IN  IF ~CanOpen(made, p)
           THEN \* os.OpenFile fails
                /\ workDir' = made
                /\ gfailed' = TRUE
                /\ gfailures' = gfailures + 1
                /\ Return(TRUE)
           ELSE \/ \* NewReader fails, or io.Copy or rc.Close after k bytes
                   /\ \E k \in 0..Size(bucket[name]) :
                        workDir' = Written(Opened(made, p, gnow), p,
                                           SubSeq(bucket[name].Content, 1, k), gnow)
                   /\ gfailed' = TRUE
                   /\ gfailures' = gfailures + 1
                   /\ Return(TRUE)
                \/ \* the object is copied
                   /\ workDir' = Written(Opened(made, p, gnow), p, bucket[name].Content, gnow)
                   /\ stack' = SetTop([Top EXCEPT !.files = Tail(@)])
                   /\ UNCHANGED <<gpc, gret, gfailed, gfailures>>
    /\ UNCHANGED <<gcs, bucket, seen, gsnap, gnow, gchanges, entered, handled>>
    /\ UNCHANGED <<gprev, deltaVars, watchVars, startVars>>

\* return nil, at the end of syncGCSPrefix
GcsSynced ==
    /\ gpc = "sync"
    /\ Top.phase = "copy"
    /\ Top.files = <<>>
    /\ Return(FALSE)
    /\ UNCHANGED <<gcs, bucket, workDir, seen, gsnap, gnow, gchanges, entered, handled,
                   gfailed, gfailures>>
    /\ UNCHANGED <<gprev, deltaVars, watchVars, startVars>>

\* dir, err := NewDirectory(...); snapDir, err := dir.Snap(); the rewriting loop
GcsSnapDir ==
    /\ gpc = "snapdir"
    /\ gpc' = "returned"
    /\ \/ gret' = "snapshot" /\ gsnap' = DirectorySnap(workDir)
       \/ gret' = "err" /\ gsnap' = << >>
    /\ UNCHANGED <<gcs, bucket, workDir, stack, seen, gnow, gchanges, entered, handled,
                   gfailed, gfailures>>
    /\ UNCHANGED <<gprev, deltaVars, watchVars, startVars>>

\* Between two Snap calls an object of the bucket is written, replaced or
\* deleted.
BucketChange ==
    /\ gpc = "returned"
    /\ gchanges < MaxChanges
    /\ gnow < MaxSnaps
    /\ gchanges' = gchanges + 1
    /\ \E b \in Buckets :
        /\ \E n \in ObjectNames :
            /\ (n \in DOMAIN b) # (n \in DOMAIN bucket)
               \/ (n \in DOMAIN b /\ n \in DOMAIN bucket /\ b[n] # bucket[n])
            /\ \A m \in ObjectNames \ {n} :
                /\ (m \in DOMAIN b) = (m \in DOMAIN bucket)
                /\ m \in DOMAIN b => b[m] = bucket[m]
        /\ bucket' = b
    /\ UNCHANGED <<gcs, workDir, gpc, stack, seen, gret, gsnap, gnow, entered, handled,
                   gfailed, gfailures>>
    /\ UNCHANGED <<gprev, deltaVars, watchVars, startVars>>

GcsStep ==
    \/ GcsSnap
    \/ GcsListFails
    \/ GcsNext
    \/ GcsListed
    \/ GcsCopy
    \/ GcsSynced
    \/ GcsSnapDir
    \/ BucketChange

(***************************************************************************)
(* Specifications.  Delta and Watch share no state: each is checked with    *)
(* the other at rest.                                                       *)
(***************************************************************************)
SpecDelta == DeltaInit /\ [][DeltaNext]_vars

SpecWatch == WatchInit /\ [][WatchNext]_vars

SpecStart == StartInit /\ [][StartNext]_vars

SpecGcs == GcsInit /\ [][GcsStep]_vars

\* Watch runs on its caller's thread and time.Sleep returns: once called, each
\* step of Watch is eventually taken.  Nothing obliges a caller to call Watch.
WatchFairness ==
    /\ WF_vars(WatchCheck)
    /\ WF_vars(WatchRefresh)
    /\ WF_vars(WatchSleep)

FairSpecWatch == SpecWatch /\ WatchFairness

(***************************************************************************)
(* Properties of Snapshot.Delta (checked under SpecDelta)                   *)
(***************************************************************************)
Returned == dpc = "returned"
Common == DOMAIN snap \cap DOMAIN post
Shared(path) == DOMAIN snap[path].Checksum \cap DOMAIN post[path].Checksum
InResults(a) == \E i \in 1..Len(results) : results[i] = a
PathInResults(path) == \E i \in 1..Len(results) : results[i].Path = path
SharedSumsEqual(path) ==
    \A algo \in Shared(path) : snap[path].Checksum[algo] = post[path].Checksum[algo]

\* C1: for every Snapshot S, Delta(S, S) returns the empty list.
C1_NoSelfDiff == (Returned /\ snap = post) => results = <<>>

C1_Witness ==
    /\ Returned
    /\ snap = post
    /\ Cardinality(DOMAIN snap) >= 2
    /\ \E path \in DOMAIN snap : snap[path].Checksum # << >>

\* C2: every entry of post whose identity is absent from pre appears in
\* Delta(pre, post), with the Artifact value recorded in post.
C2_AddedReported ==
    Returned => \A path \in DOMAIN post \ DOMAIN snap : InResults(post[path])

C2_Witness ==
    /\ Returned
    /\ DOMAIN snap # {}
    /\ \E path \in DOMAIN post \ DOMAIN snap : InResults(post[path])

\* C3: an identity in both snapshots whose Time differs is reported with the
\* post entry (post timestamp and checksums), even when every shared checksum
\* algorithm has equal values.
C3_TimePrecedence ==
    Returned =>
        \A path \in Common :
            snap[path].Time # post[path].Time => InResults(post[path])

C3_Witness ==
    /\ Returned
    /\ \E path \in Common :
        /\ snap[path].Time # post[path].Time
        /\ Shared(path) # {}
        /\ SharedSumsEqual(path)
        /\ InResults(post[path])

\* C4: an identity in both snapshots with equal Time and at least one shared
\* checksum algorithm with differing values is reported with the post entry.
C4_ChecksumPrecedence ==
    Returned =>
        \A path \in Common :
            (/\ snap[path].Time = post[path].Time
             /\ ~SharedSumsEqual(path)) => InResults(post[path])

C4_Witness ==
    /\ Returned
    /\ \E path \in Common :
        /\ snap[path].Time = post[path].Time
        /\ \E a1, a2 \in Shared(path) :
            /\ snap[path].Checksum[a1] # post[path].Checksum[a1]
            /\ snap[path].Checksum[a2] = post[path].Checksum[a2]
        /\ InResults(post[path])

\* C5: an identity present in pre and absent from post never appears in
\* Delta(pre, post); every Artifact of the result is an entry of post.
C5_NoDeletions ==
    Returned =>
        /\ \A i \in 1..Len(results) :
            /\ results[i].Path \in DOMAIN post
            /\ results[i] = post[results[i].Path]
        /\ \A path \in DOMAIN snap \ DOMAIN post : ~PathInResults(path)

C5_Witness ==
    /\ Returned
    /\ DOMAIN snap \ DOMAIN post # {}
    /\ results # <<>>

\* C6: an identity in both snapshots with equal Time and equal values under
\* every shared checksum algorithm (also when no algorithm is shared) is not
\* in Delta(pre, post).
C6_UnchangedOmitted ==
    Returned =>
        \A path \in Common :
            (/\ snap[path].Time = post[path].Time
             /\ SharedSumsEqual(path)) => ~PathInResults(path)

C6_Witness ==
    /\ Returned
    /\ \E path \in Common :
        /\ snap[path].Time = post[path].Time
        /\ Shared(path) = {}
        /\ snap[path].Checksum # << >>
        /\ post[path].Checksum # << >>
        /\ ~PathInResults(path)

\* C7: Delta returns its Artifacts in one canonical order, sorted by identity,
\* so that two evaluations on the same pair of Snapshots return the same
\* sequence.
C7_SortedByIdentity ==
    Returned =>
        \A i, j \in 1..Len(results) : i < j => results[i].Path < results[j].Path

\* C22: Delta never mutates its inputs: no step of Delta(pre, post) changes a
\* key or an Artifact of either snapshot, so both are at the return what they
\* were at the call.
C22_DeltaKeepsInputs == [][snap' = snap /\ post' = post]_vars

C22_Witness ==
    /\ Returned
    /\ results # <<>>
    /\ snap # << >>
    /\ \E path \in DOMAIN post : path \notin DOMAIN snap

(***************************************************************************)
(* Properties of Watcher.Watch (checked under SpecWatch / FairSpecWatch)    *)
(***************************************************************************)
\* Watch has just been called on a running Run whose backend answers without
\* error and reports the run finished on its call finishAt.
WatchWillFinish ==
    /\ wpc = "check"
    /\ calls = 0
    /\ run.IsRunning
    /\ ncalls < finishAt
    /\ finishAt <= MaxCalls
    /\ \A n \in (ncalls + 1)..finishAt : ~RefreshFails(n)

\* C8: if RefreshRun never fails and sets IsRunning to false on its k-th call,
\* Watch on a running Run eventually returns nil after exactly k RefreshRun
\* calls, and no RefreshRun call is made once IsRunning is false.
C8_PollLoopTerminates ==
    /\ WatchWillFinish ~>
           (wpc = "returned" /\ wret = "nil" /\ calls = finishAt - base)
    /\ [][~run.IsRunning => ncalls' = ncalls]_vars

C8_Witness ==
    /\ wpc = "returned"
    /\ wret = "nil"
    /\ entry.IsRunning
    /\ base = 0
    /\ calls = finishAt
    /\ calls >= 2
    /\ ~run.IsRunning

\* C9: when a RefreshRun call inside Watch returns an error, Watch returns an
\* error at once: no further RefreshRun call, no sleep, and the Run is left
\* as the last successful refresh left it.
C9_RefreshErrorAborts ==
    /\ [][(wpc = "refresh" /\ ncalls' # ncalls /\ RefreshFails(ncalls'))
            => (/\ wpc' = "returned"
                /\ wret' = "err"
                /\ sleeps' = sleeps
                /\ run' = run)]_vars
    /\ [][(wpc = "returned" /\ wret = "err")
            => (ncalls' = ncalls /\ run' = run)]_vars
    /\ [](wret = "err" => (wpc = "returned" /\ run = lastGood))

C9_Witness ==
    /\ wpc = "returned"
    /\ wret = "err"
    /\ calls >= 2
    /\ sleeps = calls - 1
    /\ run.Observed > 0
    /\ run = lastGood

\* C10: every RefreshRun call of Watch is made while IsRunning is true; Watch
\* called on a Run that is no longer running (also a second Watch after a
\* completed one) returns nil with no RefreshRun call.
C10_NoRefreshWhenTerminated ==
    /\ [](wpc = "refresh" => run.IsRunning)
    /\ [][ncalls' # ncalls => run.IsRunning]_vars
    /\ []((wpc = "returned" /\ ~entry.IsRunning) => (wret = "nil" /\ calls = 0))

C10_Witness ==
    /\ wpc = "returned"
    /\ ~entry.IsRunning
    /\ base > 0
    /\ wret = "nil"
    /\ calls = 0

(***************************************************************************)
(* Properties of Watcher.AttestRun (checked under SpecWatch)                *)
(***************************************************************************)
\* C14: the attestation AttestRun returns combines the Builder's predicate
\* with Subjects built from every artifact that Delta reported across the
\* registered stores.
C14_SubjectsFromDelta ==
    aret = "nil" =>
        /\ ~aatt.IsNil
        /\ aatt.Predicate.Builder = "builder"
        /\ aatt.Predicate.Subjects = discovered

\* An AttestRun call has just returned.
AttestRunReturns == <<aatt, aret, aentry, abuilt>>' # <<aatt, aret, aentry, abuilt>>

\* C15: AttestRun on a Run that is still running is no error: as for a
\* terminated Run it returns an attestation with the Builder's predicate when
\* BuildPredicate succeeds, a nil attestation with an error only when
\* BuildPredicate fails, and it never modifies the Run.
C15_StillRunningIsNoError ==
    [][AttestRunReturns =>
          /\ run' = run
          /\ aret' = (IF abuilt' THEN "nil" ELSE "err")
          /\ aatt' = (IF abuilt'
                      THEN [IsNil |-> FALSE, Predicate |-> BuildPredicate(run)]
                      ELSE NoAttestation)]_vars

C15_Witness ==
    /\ aret = "nil"
    /\ aentry.IsRunning
    /\ aentry.Observed > 0
    /\ aentry = run
    /\ ~aatt.IsNil
    /\ aatt.Predicate = BuildPredicate(run)

(***************************************************************************)
(* Properties of the start attestation command (checked under SpecStart)    *)
(***************************************************************************)
Emitted == emitted.to # "none"
FailedAt(step) == sret.status = "err" /\ sret.at = step
NoEmissionAfterSnapFailure ==
    (\/ FailedAt("snapshotting the artifact repositories")
     \/ FailedAt("saving storage snapshots")) => ~Emitted

\* C11 as claimed: whenever a partial attestation is emitted with at least one
\* artifact source registered, every registered store was snapshotted and the
\* Snapshots were saved before; a failing snapshot or save emits nothing.
C11_SavedBeforeEmitted ==
    /\ (Emitted /\ stores # <<>>) =>
           (snapshots = 1..Len(stores) /\ saved = 1..Len(stores))
    /\ NoEmissionAfterSnapFailure

\* C11 as amended: whenever a partial attestation is emitted with at least one
\* artifact source registered, every registered store was snapshotted before,
\* and the Snapshots were saved before if a snapshot state path is set (with
\* none the command only warns); a failing snapshot or save emits nothing.
C11_SavedBeforeEmittedWithStatePath ==
    /\ (Emitted /\ stores # <<>>) =>
           /\ snapshots = 1..Len(stores)
           /\ opts.statePath => saved = 1..Len(stores)
    /\ NoEmissionAfterSnapFailure

C11_Witness ==
    /\ Emitted
    /\ Len(stores) >= 2
    /\ opts.statePath
    /\ saved = 1..Len(stores)

\* C12: the emitted attestation has a non-nil predicate with only Materials:
\* one material when the locator (given, else probed) is non-empty, none when
\* it is empty, never a subject; a given locator is used without probing.
C12_OnlyMaterials ==
    Emitted =>
        /\ ~emitted.doc.IsNil
        /\ emitted.doc.HasPredicate
        /\ emitted.doc.Subjects = <<>>
        /\ Len(emitted.doc.Materials) = (IF vcsURL # <<>> THEN 1 ELSE 0)
        /\ opts.vcsURL # <<>> => (~probed /\ vcsURL = opts.vcsURL)
        /\ (opts.vcsURL = <<>> /\ ~opts.repoPath) => (~probed /\ vcsURL = <<>>)

C12_Witness ==
    /\ Emitted
    /\ probed
    /\ Len(emitted.doc.Materials) = 1

\* The place of the last '@' of s, 0 when there is none.
LastAt(s) ==
    IF \E i \in 1..Len(s) : s[i] = "@"
    THEN CHOOSE i \in 1..Len(s) : s[i] = "@" /\ \A j \in (i + 1)..Len(s) : s[j] # "@"
    ELSE 0

\* repo-url@commit or repo-url, with a non-empty repo-url and commit and no
\* two separators in a row
WellFormed(s) ==
    /\ s # <<>>
    /\ s[1] # "@"
    /\ s[Len(s)] # "@"
    /\ \A i \in 1..(Len(s) - 1) : ~(s[i] = "@" /\ s[i + 1] = "@")

\* C13: for a locator repo-url@commit, whatever the repo-url (also one with an
\* '@' of its own), the material has URI = repo-url and digest {sha1: commit};
\* without '@' the URI is the whole locator and the digest map is empty.
C13_MaterialSplitsAtCommit ==
    (Emitted /\ WellFormed(vcsURL)) =>
        /\ Len(emitted.doc.Materials) = 1
        /\ IF LastAt(vcsURL) = 0
           THEN /\ emitted.doc.Materials[1].URI = vcsURL
                /\ emitted.doc.Materials[1].Digest = {}
           ELSE /\ emitted.doc.Materials[1].URI = SubSeq(vcsURL, 1, LastAt(vcsURL) - 1)
                /\ emitted.doc.Materials[1].Digest =
                       {<<"sha1", SubSeq(vcsURL, LastAt(vcsURL) + 1, Len(vcsURL))>>}

\* A call of AddArtifactSource with one of n URIs: the URI and whether
\* store.New resolves it; the sequences of up to n such calls.
Call(n) == [uri : 1..n, ok : BOOLEAN]
CallSeqs(n) == UNION {[1..k -> Call(n)] : k \in 0..n}

\* The Watcher after the calls were made one after the other.
RECURSIVE AfterCalls(_, _)
AfterCalls(w, cs) ==
    IF cs = <<>> THEN w
    ELSE AfterCalls(AddArtifactSource(w, Head(cs).uri, Head(cs).ok).w, Tail(cs))

\* The URIs of the successful calls, in call order.
RECURSIVE Resolved(_)
Resolved(cs) ==
    IF cs = <<>> THEN <<>>
    ELSE (IF Head(cs).ok THEN <<Head(cs).uri>> ELSE <<>>) \o Resolved(Tail(cs))

\* C23: after any sequence of AddArtifactSource calls ArtifactStores holds the
\* stores of the successful calls in call order, a failing call returns an
\* error and leaves ArtifactStores and the Builder as they were, and the
\* start command stops at the first failing call and takes no snapshot.
C23_OneStorePerResolvedSource ==
    /\ spc = "sources" =>
           \A cs \in CallSeqs(opts.artifacts) :
               /\ AfterCalls(Watcher(stores), cs) = Watcher(stores \o Resolved(cs))
               /\ \A i \in 1..Len(cs) : AddArtifactSource(Watcher(stores), cs[i].uri, cs[i].ok).err = ~cs[i].ok
    /\ stores = [i \in 1..Len(stores) |-> i]
    /\ Len(stores) <= opts.artifacts
    /\ FailedAt("adding artifacts source") =>
           Len(stores) < opts.artifacts /\ snapshots = {} /\ saved = {} /\ ~Emitted
    /\ snapshots # {} => Len(stores) = opts.artifacts

C23_Witness ==
    /\ FailedAt("adding artifacts source")
    /\ Len(stores) >= 1

\* os.WriteFile failed: an output path is set, the writing step is over and
\* nothing was emitted.
WriteFailed ==
    /\ opts.outputPath
    /\ spc = "pubsub" \/ (spc = "done" /\ sret.at \in {"", "reading snapshot data",
                                                        "publishing message to pubsub topic"})
    /\ ~Emitted

\* C21: no step of the start command fails silently: an error the command
\* returns wraps its cause, and the command does not return nil after the
\* write of the attestation file failed.
C21_FailuresReturnedWrapped ==
    /\ sret.status = "err" => sret.wraps
    /\ WriteFailed /\ spc = "done" => sret.status = "err"

\* C25: an invocation that returns an error has written no snapshot state
\* file, emitted no attestation and published no message.
C25_FailureLeavesNoEffect ==
    sret.status = "err" => saved = {} /\ ~Emitted /\ ~published


(***************************************************************************)
(* Properties of the object-storage driver                                  *)
(***************************************************************************)
SnapReturned == gpc = "returned"

\* C16: Snap is all-or-nothing: when a listing or a download failed for an
\* object under the root prefix or under a sub-prefix visited from it, the
\* Snap that returns does so with an error and without a Snapshot.
C16_SnapAllOrNothing ==
    SnapReturned /\ gfailed => gret = "err" /\ gsnap = << >>

\* The objects of the bucket that are copied to the path p of the working
\* directory.
ObjectsAt(p) == {n \in DOMAIN bucket : LocalPath(n) = p}

\* C17: each Snap is a fresh read: when no listing and no download has ever
\* failed, every artifact of the Snapshot a call returns is an object the
\* bucket holds at that call, with that object's content.
C17_SnapIsFreshRead ==
    [][gpc = "snapdir" /\ gret' = "snapshot" /\ gfailures = 0 =>
        \A p \in DOMAIN gsnap' :
            \E n \in ObjectsAt(p) : gsnap'[p].Checksum["SHA256"] = bucket[n].Content]_vars

\* A zero-length placeholder whose name ends in the path separator.
IsMarker(n) == HasSuffixSep(n) /\ Size(bucket[n]) = 0

\* C18: a zero-length placeholder whose name ends in the path separator is
\* never scheduled for download as a file, whether or not its prefix has
\* been visited.
C18_MarkerNeverAFile ==
    \A h \in handled : IsMarker(h[1]) => h[2] # "file"

\* C19: a named object that is not a directory marker is skipped exactly
\* when it is zero-length and plain-text, and is scheduled for download
\* otherwise.
C19_SkipsExactlyEmptyText ==
    \A h \in handled :
        ~HasSuffixSep(h[1]) =>
            (h[2] = "skip") = (Size(bucket[h[1]]) = 0 /\ bucket[h[1]].ContentType = Text)

\* C20: within one Snap syncGCSPrefix is entered at most once per directory:
\* no prefix is entered twice, with or without its trailing separator.
C20_NeverRevisits ==
    \A i, j \in 1..Len(entered) :
        i # j => TrimSuffixSep(entered[i]) # TrimSuffixSep(entered[j])

\* Within one Snap no prefix string is entered twice.
EnteredOncePerString ==
    \A i, j \in 1..Len(entered) : i # j => entered[i] # entered[j]

\* Snapshot.Delta(post) as the set of the identities it reports.
DeltaPaths(pre, now) == {p \in DOMAIN now : Reported(pre, p, now[p])}

\* Two Snaps in a row returned a Snapshot, no listing and no download ever
\* failed, and the bucket was not changed in between.
SnappedTwiceUnchanged ==
    /\ SnapReturned
    /\ gret = "snapshot"
    /\ gprev.ret = "snapshot"
    /\ gprev.changes = gprev.called
    /\ gfailures = 0

\* C24: when the bucket does not change between a Snap and the next, the
\* Delta of the two Snapshots is empty.
C24_UnchangedBucketEmptyDelta ==
    SnappedTwiceUnchanged => DeltaPaths(gprev.snapshot, gsnap) = {}

====
